---------------------------- MODULE Spec2Model ----------------------------
(***************************************************************************)
(* Model of FittingWidget (wt_fittingwidget.cpp): the Levenberg-Marquardt  *)
(* worker started by on_btnRunFit_clicked, the slots of the interaction    *)
(* thread that share state with it, and the pure helpers they call.        *)
(*                                                                         *)
(* Numbers.  Parameter values are fixed-point integers, Scale units = 1.0, *)
(* so one unit is 1e-4 (the linear finite-difference step).  Times are     *)
(* integers in units of 5e-10, half the tolerance of DataPoint::operator==.*)
(* A pressure or derivative value is a record                              *)
(* [pos, ln]: pos says whether the value is above the 1e-10 floor, ln is   *)
(* its natural logarithm in hundredths.  Residuals are in units of 1e-4,   *)
(* sums of squares in units of 1e-8.  The damping factor is kept by its    *)
(* decimal exponent.                                                       *)
(***************************************************************************)
EXTENDS Integers, Sequences, FiniteSets, TLC

(***************************************************************************)
(* Bounds of the model.                                                    *)
(***************************************************************************)
\* longest observed series the interaction thread loads
MaxObsLen == 1
\* largest |delta[i]| (in decades / whole units) the linear solve returns
MaxDelta == 1
\* Run requests accepted in one behaviour
MaxRuns == 2
\* outer iterations of one run (int maxIter, 50 in the source)
maxIter == 3
\* points the default sampling strategy keeps (int targetCount, 200 in the source)
targetCount == 3
\* largest time of a series given to the sampler
MaxTime == 7
\* longest series given to the sampler
MaxSrcLen == 4
\* largest count of a sampling interval
MaxCount == 3
\* longest vector given to calculateResiduals on its own
MaxResLen == 2

(***************************************************************************)
(* Program constants.                                                      *)
(***************************************************************************)
Scale == 100 * 100
\* std::abs(t - other.t) < 1e-9, in time units
timeTol == 2
\* subMin = 1e-4, in time units
floorTime == 200000
\* for(int tryIter=0; tryIter<5; ++tryIter)
maxTry == 5
\* double lambda = 0.01, as a decimal exponent
lambdaInitExp == -2
\* if(!stepAccepted && lambda > 1e10), as a decimal exponent
lambdaStallExp == 10
\* (currentSSE / residuals.size()) < 3e-3, in units of 1e-8 per residual
mseLimit == 300000
\* h = 1e-4 (linear perturbation), one fixed-point unit
hLinear == 1
\* 10^(+0.01) and 10^(-0.01) in ten-thousandths (h = 0.01, log perturbation)
hLogUp == 10233
hLogDown == 9772

Abs(x) == IF x < 0 THEN -x ELSE x
Min2(a, b) == IF a < b THEN a ELSE b
Max2(a, b) == IF a > b THEN a ELSE b

RECURSIVE Pow(_, _)
Pow(b, e) == IF e <= 0 THEN 1 ELSE b * Pow(b, e - 1)

RECURSIVE SumSeq(_)
SumSeq(s) == IF s = <<>> THEN 0 ELSE Head(s) + SumSeq(Tail(s))

(***************************************************************************)
(* Values of the observed and computed curves.                             *)
(***************************************************************************)
PosVal(k) == [pos |-> TRUE, ln |-> k]
\* the value 0.0 (at or below every positivity floor)
ZeroVal == [pos |-> FALSE, ln |-> 0]

(***************************************************************************)
(* getLogSampledData                                                       *)
(***************************************************************************)
\* std::lower_bound / std::upper_bound on the ascending time vector, as the
\* 0-based index std::distance returns
LowerBound(srcT, x) == Cardinality({i \in 1..Len(srcT) : srcT[i] < x})

\* variant: the sub-range of an interval runs to the end of the series
UpperBoundAtEnd(srcT, x) == Len(srcT)

UpperBound(srcT, x) == Cardinality({i \in 1..Len(srcT) : srcT[i] <= x})

\* if (subMin <= 1e-10) subMin = 1e-4;   (1e-10 is below one time unit)
FloorTime(t) == IF t <= 0 THEN floorTime ELSE t

\* diff(x) < diff(y) for diff(z) = |z - targetT|, where targetT is the i-th
\* of count log-spaced targets between lo and hi:
\*   targetT = pow(10, logMin + i*step) = lo^((m-i)/m) * hi^(i/m), m = count-1
\* (targetT = lo when count = 1).  For x # y this is x + y < 2 targetT when
\* x > y and x + y > 2 targetT when x < y; both sides are raised to the m-th
\* power to stay in the integers.
CloserToTarget(x, y, i, count, lo, hi) ==
    IF count = 1
    THEN Abs(x - lo) < Abs(y - lo)
    ELSE LET m == count - 1
             tgtM == Pow(2, m) * Pow(lo, m - i) * Pow(hi, i)
             sumM == Pow(x + y, m)
         IN  IF x > y THEN sumM < tgtM
             ELSE IF x < y THEN sumM > tgtM
             ELSE FALSE

\* the inner while loop: scan from cur (0-based) while the distance to the
\* target keeps shrinking; returns bestIdx.  first = minDiff is still 1e30.
RECURSIVE ScanNearest(_, _, _, _, _, _, _, _, _)
ScanNearest(srcT, cur, best, first, idxEnd, i, count, lo, hi) ==
    IF cur >= idxEnd THEN best
    ELSE IF first \/ CloserToTarget(srcT[cur + 1], srcT[best + 1], i, count, lo, hi)
         THEN ScanNearest(srcT, cur + 1, cur, FALSE, idxEnd, i, count, lo, hi)
         ELSE best

\* the for loop over the count targets: the 0-based indices picked, in order
RECURSIVE PickIndices(_, _, _, _, _, _, _)
PickIndices(srcT, cursor, idxEnd, i, count, lo, hi) ==
    IF i >= count THEN <<>>
    ELSE LET bestIdx == ScanNearest(srcT, cursor, cursor, TRUE, idxEnd, i, count, lo, hi)
         IN  (IF bestIdx < Len(srcT) THEN <<bestIdx>> ELSE <<>>)
             \o PickIndices(srcT, bestIdx, idxEnd, i + 1, count, lo, hi)

\* points.append({srcT[bestIdx], bestIdx<srcP.size()?srcP[bestIdx]:0.0, ...})
DataPoint(srcT, srcP, srcD, idx) ==
    [t |-> srcT[idx + 1],
     p |-> IF idx < Len(srcP) THEN srcP[idx + 1] ELSE ZeroVal,
     d |-> IF idx < Len(srcD) THEN srcD[idx + 1] ELSE ZeroVal]

PointsAt(srcT, srcP, srcD, idxs) ==
    [k \in 1..Len(idxs) |-> DataPoint(srcT, srcP, srcD, idxs[k])]

\* one SamplingInterval of the custom strategy
IntervalPoints(srcT, srcP, srcD, interval) ==
    IF interval.count <= 0 THEN <<>>
    ELSE LET idxStart == LowerBound(srcT, interval.tStart)
             idxEnd == UpperBound(srcT, interval.tEnd)
         IN  IF idxStart >= Len(srcT) \/ idxStart >= idxEnd THEN <<>>
             ELSE PointsAt(srcT, srcP, srcD,
                      PickIndices(srcT, idxStart, idxEnd, 0, interval.count,
                                  FloorTime(srcT[idxStart + 1]), srcT[idxEnd]))

RECURSIVE CustomPoints(_, _, _, _)
CustomPoints(srcT, srcP, srcD, intervals) ==
    IF intervals = <<>> THEN <<>>
    ELSE IntervalPoints(srcT, srcP, srcD, Head(intervals))
         \o CustomPoints(srcT, srcP, srcD, Tail(intervals))

\* the default strategy for more than targetCount points
DefaultPoints(srcT, srcP, srcD) ==
    PointsAt(srcT, srcP, srcD,
        PickIndices(srcT, 0, Len(srcT), 0, targetCount,
                    FloorTime(srcT[1]), srcT[Len(srcT)]))

\* std::sort(points.begin(), points.end()) with operator< on t
RECURSIVE InsertByTime(_, _)
InsertByTime(sorted, pt) ==
    IF sorted = <<>> THEN <<pt>>
    ELSE IF pt.t < Head(sorted).t THEN <<pt>> \o sorted
    ELSE <<Head(sorted)>> \o InsertByTime(Tail(sorted), pt)

RECURSIVE SortByTime(_)
SortByTime(points) ==
    IF points = <<>> THEN <<>>
    ELSE InsertByTime(SortByTime(SubSeq(points, 1, Len(points) - 1)), points[Len(points)])

\* bool operator==(const DataPoint& other): |t - other.t| < 1e-9
SameTime(a, b) == Abs(a.t - b.t) < timeTol

\* std::unique: an element is kept unless it equals the last element kept
RECURSIVE UniqueFrom(_, _)
UniqueFrom(kept, rest) ==
    IF rest = <<>> THEN kept
    ELSE IF SameTime(kept[Len(kept)], Head(rest))
         THEN UniqueFrom(kept, Tail(rest))
         ELSE UniqueFrom(Append(kept, Head(rest)), Tail(rest))

Unique(points) ==
    IF points = <<>> THEN <<>> ELSE UniqueFrom(<<Head(points)>>, Tail(points))

SeriesOf(points) ==
    [t |-> [k \in 1..Len(points) |-> points[k].t],
     p |-> [k \in 1..Len(points) |-> points[k].p],
     d |-> [k \in 1..Len(points) |-> points[k].d]]

\* variant: one point more than targetCount is still used whole
KeepsAllPlusOne(n) == n <= targetCount + 1

\* if (srcT.size() <= targetCount): the series is used whole
KeepsAll(n) == n <= targetCount

getLogSampledData(srcT, srcP, srcD, customEnabled, intervals) ==
    IF srcT = <<>> THEN [t |-> <<>>, p |-> <<>>, d |-> <<>>]
    ELSE IF ~customEnabled
    THEN IF KeepsAll(Len(srcT))
         THEN [t |-> srcT, p |-> srcP, d |-> srcD]
         ELSE SeriesOf(Unique(SortByTime(DefaultPoints(srcT, srcP, srcD))))
    ELSE IF intervals = <<>>
         THEN [t |-> srcT, p |-> srcP, d |-> srcD]
         ELSE SeriesOf(Unique(SortByTime(CustomPoints(srcT, srcP, srcD, intervals))))

(***************************************************************************)
(* calculateResiduals / calculateSumSquaredError                           *)
(***************************************************************************)
\* one entry: (log(obs) - log(cal)) * w, or 0.0 below the floor; w in percent
ResidualEntry(obs, cal, w) ==
    IF obs.pos /\ cal.pos THEN (obs.ln - cal.ln) * w ELSE 0

\* variant: the derivative count is not capped by the pressure count
calculateResidualsUncapped(hasManager, t, obsP, obsD, weight, curve) ==
    IF ~hasManager \/ t = <<>> THEN <<>>
    ELSE LET pCal == curve.p
             dpCal == curve.d
             count == Min2(Len(obsP), Len(pCal))
             dCount == Min2(Len(obsD), Len(dpCal))
         IN  [i \in 1..count |-> ResidualEntry(obsP[i], pCal[i], weight)]
             \o [i \in 1..dCount |-> ResidualEntry(obsD[i], dpCal[i], 100 - weight)]

\* curve is what calculateTheoreticalCurve returned for the time vector t
calculateResiduals(hasManager, t, obsP, obsD, weight, curve) ==
    IF ~hasManager \/ t = <<>> THEN <<>>
    ELSE LET pCal == curve.p
             dpCal == curve.d
             count == Min2(Len(obsP), Len(pCal))
             dCount == Min2(Min2(Len(obsD), Len(dpCal)), count)
         IN  [i \in 1..count |-> ResidualEntry(obsP[i], pCal[i], weight)]
             \o [i \in 1..dCount |-> ResidualEntry(obsD[i], dpCal[i], 100 - weight)]

calculateSumSquaredError(residuals) ==
    SumSeq([i \in 1..Len(residuals) |-> residuals[i] * residuals[i]])

(***************************************************************************)
(* QMap<QString,double>                                                    *)
(***************************************************************************)
Contains(map, key) == key \in DOMAIN map
\* map[key] = v  (operator[] inserts the key when it is missing)
Put(map, key, v) == [k \in (DOMAIN map) \cup {key} |-> IF k = key THEN v ELSE map[k]]

\* for(const auto& p : params) currentParamMap.insert(p.name, p.value);
ParamMapOf(params) ==
    [n \in {params[i].name : i \in 1..Len(params)} |->
        LET last == CHOOSE i \in 1..Len(params) :
                       /\ params[i].name = n
                       /\ \A j \in 1..Len(params) : params[j].name = n => j <= i
        IN  params[last].value]

(***************************************************************************)
(* Physical constraints and derived parameters                             *)
(***************************************************************************)
\* x * 1.01
Times101(x) == (x * 101) \div 100

\* if(map["kf"] <= map["km"]) map["kf"] = map["km"] * 1.01;
\* variant: the repair lowers km (omega2) instead
ForceOuterBelow(map, inner, outer) ==
    IF Contains(map, inner) /\ Contains(map, outer) /\ map[inner] <= map[outer]
    THEN Put(map, outer, (map[inner] * 100) \div 101)
    ELSE map

ForceAbove(map, inner, outer) ==
    IF Contains(map, inner) /\ Contains(map, outer) /\ map[inner] <= map[outer]
    THEN Put(map, inner, Times101(map[outer]))
    ELSE map

ApplyConstraints(map) == ForceAbove(ForceAbove(map, "kf", "km"), "omega1", "omega2")

\* if(map.contains("L") && map.contains("Lf") && map["L"] > 1e-9)
\*     map["LfD"] = map["Lf"] / map["L"];
updateDeps(map) ==
    IF Contains(map, "L") /\ Contains(map, "Lf") /\ map["L"] > 0
    THEN Put(map, "LfD", (map["Lf"] * Scale) \div map["L"])
    ELSE map

\* the initial map of a run: insert, constrain, derive
InitialParamMap(params) == updateDeps(ApplyConstraints(ParamMapOf(params)))

(***************************************************************************)
(* Free parameters, perturbation and trial step                            *)
(***************************************************************************)
\* if(params[i].isFit && params[i].name != "LfD") fitIndices.append(i);
\* variant: the fit flag alone decides
IsFreeByFlag(p) == p.isFit

IsFree(p) == p.isFit /\ p.name # "LfD"

FitIndices(params) ==
    LET RECURSIVE Collect(_)
        Collect(i) == IF i > Len(params) THEN <<>>
                      ELSE (IF IsFree(params[i]) THEN <<i>> ELSE <<>>) \o Collect(i + 1)
    IN  Collect(1)

\* bool isLog = (val > 1e-12 && pName != "S" && pName != "nf");
IsLog(val, pName) == val > 0 /\ pName # "S" /\ pName # "nf"

\* variant: pPlus keeps the LfD of the unperturbed map
PlusMapStale(map, pName) ==
    LET val == map[pName]
    IN  Put(map, pName, IF IsLog(val, pName) THEN (val * hLogUp) \div Scale
                        ELSE val + hLinear)

\* pPlus / pMinus of computeJacobian for one free parameter
PlusMap(map, pName) ==
    LET val == map[pName]
        plus == Put(map, pName, IF IsLog(val, pName) THEN (val * hLogUp) \div Scale
                                 ELSE val + hLinear)
    IN  IF pName = "L" \/ pName = "Lf" THEN updateDeps(plus) ELSE plus

MinusMap(map, pName) ==
    LET val == map[pName]
        minus == Put(map, pName, IF IsLog(val, pName) THEN (val * hLogDown) \div Scale
                                  ELSE val - hLinear)
    IN  IF pName = "L" \/ pName = "Lf" THEN updateDeps(minus) ELSE minus

\* pow(10.0, log10(oldVal) + d) for a whole number d of decades
ShiftDecades(oldVal, d) ==
    IF d >= 0 THEN oldVal * Pow(10, d) ELSE oldVal \div Pow(10, -d)

\* newVal = qMax(min, qMin(newVal, max))
Clamp(newVal, lo, hi) == Max2(lo, Min2(newVal, hi))

\* the new value of one free parameter for the solver's delta[i]
TrialValue(p, oldVal, d) ==
    Clamp(IF IsLog(oldVal, p.name) THEN ShiftDecades(oldVal, d) ELSE oldVal + d * Scale,
          p.min, p.max)

\* the trial map of one damping attempt: step, clamp, derive, constrain
TrialMap(current, params, fitIndices, delta) ==
    LET RECURSIVE Step(_, _)
        Step(i, trial) ==
            IF i > Len(fitIndices) THEN trial
            ELSE LET p == params[fitIndices[i]]
                 IN  Step(i + 1, Put(trial, p.name, TrialValue(p, current[p.name], delta[i])))
    IN  ApplyConstraints(updateDeps(Step(1, current)))

\* if(newSSE < currentSSE)
\* variant: a step that does not raise the SSE is taken
StepAcceptedOnTie(newSSE, currentSSE) == newSSE <= currentSSE

StepAccepted(newSSE, currentSSE) == newSSE < currentSSE

\* if (!residuals.isEmpty() && (currentSSE / residuals.size()) < 3e-3) break;
\* variant: the limit is 3e-2
ConvergedLoosely(residuals, currentSSE) ==
    residuals # <<>> /\ currentSSE < 10 * mseLimit * Len(residuals)

Converged(residuals, currentSSE) ==
    residuals # <<>> /\ currentSSE < mseLimit * Len(residuals)

\* if(m_stopRequested) break;
\* variant: the loop never looks at the flag
StopIgnored(stopFlag) == FALSE

StopObserved(stopFlag) == stopFlag

\* if(!stepAccepted && lambda > 1e10) break;
\* variant: the limit is 1e5
StalledAboveE5(accepted, lambdaExp) == ~accepted /\ lambdaExp > 5

\* variant: the limit itself counts as saturated
StalledAtLimit(accepted, lambdaExp) == ~accepted /\ lambdaExp >= lambdaStallExp

Stalled(accepted, lambdaExp) == ~accepted /\ lambdaExp > lambdaStallExp

(***************************************************************************)
(* Inputs: parameter lists, observed series, sampling settings, weights,   *)
(* and what the forward model may return.                                  *)
(***************************************************************************)
\* FitParameter {name, value, isFit, min, max}; v, lo, hi in tenths
FitParameter(name, v, isFit, lo, hi) ==
    [name |-> name, value |-> v * (Scale \div 10), isFit |-> isFit,
     min |-> lo * (Scale \div 10), max |-> hi * (Scale \div 10)]

\* the list FittingParameterChart::resetParams leaves for a model type: the
\* defaults of that model, none of them with LfD marked for fitting
resetParams(type) ==
    IF type = 1
    THEN <<FitParameter("kf", 20, TRUE, 1, 100), FitParameter("km", 10, FALSE, 1, 100)>>
    ELSE <<FitParameter("L", 10, TRUE, 1, 100), FitParameter("Lf", 5, FALSE, 1, 100),
           FitParameter("LfD", 5, FALSE, 0, 100)>>

\* the lists the chart can hold when Run is pressed, after the user's model
\* selection, table edits and restored states
ParamConfigs ==
    { <<FitParameter("kf", 10, TRUE, 1, 10), FitParameter("km", 10, FALSE, 1, 100)>>,
      <<FitParameter("kf", -20, FALSE, -100, 100), FitParameter("km", -10, FALSE, -100, 100),
        FitParameter("omega1", 5, FALSE, 1, 10), FitParameter("omega2", 5, FALSE, 5, 10),
        FitParameter("S", 0, TRUE, 0, 10)>>,
      <<FitParameter("L", 10, TRUE, 10, 100), FitParameter("Lf", 5, FALSE, 1, 100),
        FitParameter("LfD", 9, TRUE, 0, 100)>>,
      <<FitParameter("L", 10, FALSE, 1, 100), FitParameter("Lf", 5, FALSE, 1, 100),
        FitParameter("LfD", 9, TRUE, 0, 100)>>,
      <<FitParameter("kf", 20, FALSE, 1, 100), FitParameter("km", 10, FALSE, 1, 100)>> }

\* ui->sliderWeight->value(), in percent
WeightChoices == {50}

\* the observed series: n points at times 10, 100, ... with unit values
ObsSeries(n) ==
    [t |-> [i \in 1..n |-> Pow(10, i)],
     p |-> [i \in 1..n |-> PosVal(0)],
     d |-> [i \in 1..n |-> PosVal(0)]]

ObsChoices == {ObsSeries(MaxObsLen)}

\* sampling settings: default, and one interval past the end of the series,
\* which selects no point
SamplingChoices ==
    { [enabled |-> FALSE, intervals |-> <<>>],
      [enabled |-> TRUE,
       intervals |-> <<[tStart |-> Pow(10, MaxObsLen + 1),
                        tEnd |-> Pow(10, MaxObsLen + 2), count |-> 1]>>] }

\* values a computed curve may hold: below the 1e-10 floor, and three above
\* it whose squared residuals fall under and over the convergence limit
ModelVals == {ZeroVal, PosVal(5), PosVal(20), PosVal(100)}

\* what calculateTheoreticalCurve may return for n time points: one value
\* along both curves, the pressure curve as long as the request or one short
ModelCurves(n) ==
    { [p |-> [i \in 1..lp |-> a], d |-> [i \in 1..n |-> a]] :
        lp \in {n, Max2(n - 1, 0)}, a \in ModelVals }

(***************************************************************************)
(* State                                                                   *)
(***************************************************************************)
VARIABLES
    m_modelManager,             \* TRUE when the pointer is not null
    highPrecision,              \* the forward model's precision mode
    m_isFitting,
    m_stopRequested,
    m_obsTime, m_obsDeltaP, m_obsDerivative,
    m_isCustomSamplingEnabled, m_customIntervals,
    m_currentModelType,
    m_paramChart,               \* the list FittingParameterChart holds
    msgBoxes,                   \* open "fit finished" message boxes
    queue,                      \* events posted to the interaction thread
    worker,                     \* the task QtConcurrent::run started last
    lingering,                  \* earlier tasks that have not returned yet
    runs,                       \* Run requests accepted so far
    finishedCalls,              \* executions of onFitFinished since the last accepted Run
    emitted,                    \* what the current task emitted, in order
    lastSnapshot,               \* the last sigIterationUpdated of the task
    acceptedMap,                \* the map of the last accepted step
    evaluated,                  \* maps the last step gave to calculateResiduals
    modelCalled,                \* the task has called calculateTheoreticalCurve
    sinceStop,                  \* work the task began after the stop request
    uiEvaluatedInRun,           \* updateModelCurve evaluated the model while the
                                \* task of the last accepted Run was executing
    runInputs                   \* what sampling gave on the members when Run was
                                \* accepted, until the task has sampled

uiVars == <<m_modelManager, m_isFitting, m_stopRequested,
            m_obsTime, m_obsDeltaP, m_obsDerivative,
            m_isCustomSamplingEnabled, m_customIntervals,
            m_currentModelType, m_paramChart, msgBoxes>>
historyVars == <<runs, finishedCalls, emitted, lastSnapshot, acceptedMap,
                 evaluated, modelCalled, sinceStop, uiEvaluatedInRun,
                 runInputs>>
vars == <<uiVars, highPrecision, queue, worker, lingering, historyVars>>

NoMap == [x \in {} |-> 0]
NoSnapshot == [kind |-> "none", sse |-> 0, n |-> 0, map |-> NoMap]
NoWork == [iters |-> 0, jac |-> 0, trials |-> 0]
NoInputs == [taken |-> FALSE, fit |-> [t |-> <<>>, p |-> <<>>, d |-> <<>>]]

\* the locals of runLevenbergMarquardtOptimization, and res of
\* calculateResiduals and J of computeJacobian, which live only inside a call
IdleWorker ==
    [pc |-> "idle", params |-> <<>>, weight |-> 0, fitIndices |-> <<>>,
     fitT |-> <<>>, fitP |-> <<>>, fitD |-> <<>>,
     lambdaExp |-> lambdaInitExp, currentSSE |-> 0, currentParamMap |-> NoMap,
     residuals |-> <<>>, nRes |-> 0, iter |-> 0, tryIter |-> 0,
     stepAccepted |-> FALSE, jacobianOk |-> <<>>,
     res |-> [p |-> <<>>, d |-> <<>>], J |-> <<>>]

\* the process has not died on a null m_modelManager
Alive == worker.pc # "crashed"

\* the state after the constructor; m_stopRequested has no initializer
Init ==
    /\ m_modelManager = FALSE
    /\ highPrecision = TRUE
    /\ m_isFitting = FALSE
    /\ m_stopRequested \in BOOLEAN
    /\ m_obsTime = <<>> /\ m_obsDeltaP = <<>> /\ m_obsDerivative = <<>>
    /\ m_isCustomSamplingEnabled = FALSE
    /\ m_customIntervals = <<>>
    /\ m_currentModelType = 1
    /\ m_paramChart = <<>>
    /\ msgBoxes = 0
    /\ queue = <<>>
    /\ worker = IdleWorker
    /\ lingering = 0
    /\ runs = 0
    /\ finishedCalls = 0
    /\ emitted = <<>>
    /\ lastSnapshot = NoSnapshot
    /\ acceptedMap = NoMap
    /\ evaluated = {}
    /\ modelCalled = FALSE
    /\ sinceStop = NoWork
    /\ uiEvaluatedInRun = FALSE
    /\ runInputs = NoInputs

(***************************************************************************)
(* Slots and calls of the interaction thread.  A click reaches a slot only *)
(* while no modal message box is open.                                     *)
(***************************************************************************)
\* the owner of the widget calls it while it sets the page up, before the
\* user can press a button
setModelManager ==
    /\ Alive /\ ~m_modelManager /\ runs = 0
    /\ m_modelManager' = TRUE
    /\ m_currentModelType' = 1
    /\ m_paramChart' = resetParams(1)
    /\ UNCHANGED <<m_isFitting, m_stopRequested, m_obsTime, m_obsDeltaP, m_obsDerivative,
                   m_isCustomSamplingEnabled, m_customIntervals, msgBoxes,
                   highPrecision, queue, worker, lingering, historyVars>>

setObservedData ==
    /\ Alive /\ msgBoxes = 0
    /\ \E obs \in ObsChoices :
          /\ m_obsTime' = obs.t
          /\ m_obsDeltaP' = obs.p
          /\ m_obsDerivative' = obs.d
    /\ UNCHANGED <<m_modelManager, m_isFitting, m_stopRequested,
                   m_isCustomSamplingEnabled, m_customIntervals, msgBoxes,
                   highPrecision, queue, worker, lingering, historyVars>>
    /\ UNCHANGED <<m_currentModelType, m_paramChart>>

\* the task is between its first and its last statement
WorkerExecuting == worker.pc \notin {"idle", "begin", "return", "crashed"}

\* without a manager the function shows an error box and returns; with one
\* it calls calculateTheoreticalCurve at least once, whatever m_isFitting is.
\* The curves go to the plot, which is not part of the state
updateModelCurve ==
    uiEvaluatedInRun' = (uiEvaluatedInRun \/ (m_modelManager /\ WorkerExecuting))

onOpenSamplingSettings ==
    /\ Alive /\ msgBoxes = 0
    /\ m_obsTime # <<>>
    /\ \E cfg \in SamplingChoices :
          /\ m_isCustomSamplingEnabled' = cfg.enabled
          /\ m_customIntervals' = cfg.intervals
    /\ updateModelCurve
    /\ UNCHANGED <<m_modelManager, m_isFitting, m_stopRequested, m_obsTime, m_obsDeltaP,
                   m_obsDerivative, msgBoxes,
                   highPrecision, queue, worker, lingering>>
    /\ UNCHANGED <<runs, runInputs, finishedCalls, emitted, lastSnapshot, acceptedMap,
                   evaluated, modelCalled, sinceStop>>
    /\ UNCHANGED <<m_currentModelType, m_paramChart>>

\* the refresh button
on_btnImportModel_clicked ==
    /\ Alive /\ msgBoxes = 0
    /\ updateModelCurve
    /\ UNCHANGED <<uiVars, highPrecision, queue, worker, lingering>>
    /\ UNCHANGED <<runs, runInputs, finishedCalls, emitted, lastSnapshot, acceptedMap,
                   evaluated, modelCalled, sinceStop>>

\* m_watcher.setFuture drops the finished events of the future it replaces
DropWatcherEvents(q) == SelectSeq(q, LAMBDA e : e # "watcherFinished")

\* if(m_isFitting) return;
RunGuard(isFitting) == ~isFitting

\* the request is accepted and a task is started
on_btnRunFit_clicked ==
    /\ Alive /\ msgBoxes = 0
    /\ RunGuard(m_isFitting)
    /\ m_obsTime # <<>>
    /\ runs < MaxRuns
    /\ worker.pc \in {"idle", "return"}
    /\ m_isFitting' = TRUE
    /\ m_stopRequested' = FALSE
    /\ \E params \in ParamConfigs, w \in WeightChoices :
          /\ m_paramChart' = params
          /\ worker' = [IdleWorker EXCEPT !.pc = "begin", !.params = params, !.weight = w]
    /\ lingering' = IF worker.pc = "return" THEN lingering + 1 ELSE lingering
    /\ queue' = DropWatcherEvents(queue)
    /\ runs' = runs + 1
    /\ finishedCalls' = 0
    /\ emitted' = <<>>
    /\ lastSnapshot' = NoSnapshot
    /\ acceptedMap' = NoMap
    /\ evaluated' = {}
    /\ modelCalled' = FALSE
    /\ sinceStop' = NoWork
    /\ uiEvaluatedInRun' = FALSE
    /\ runInputs' = [taken |-> TRUE,
                     fit |-> getLogSampledData(m_obsTime, m_obsDeltaP, m_obsDerivative,
                                               m_isCustomSamplingEnabled,
                                               m_customIntervals)]
    /\ UNCHANGED <<m_modelManager, m_obsTime, m_obsDeltaP, m_obsDerivative,
                   m_isCustomSamplingEnabled, m_customIntervals, msgBoxes,
                   m_currentModelType, highPrecision>>

\* the request returns at one of the two guards
on_btnRunFit_rejected ==
    /\ Alive /\ msgBoxes = 0
    /\ ~RunGuard(m_isFitting) \/ m_obsTime = <<>>
    /\ UNCHANGED vars

\* m_stopRequested is a plain bool the worker reads without synchronisation:
\* the store reaches the worker at some moment after the click, and the
\* action stands for that moment
on_btnStop_clicked ==
    /\ Alive /\ msgBoxes = 0
    /\ m_stopRequested' = TRUE
    /\ sinceStop' = IF m_stopRequested THEN sinceStop ELSE NoWork
    /\ UNCHANGED <<m_modelManager, m_isFitting,
                   m_obsTime, m_obsDeltaP, m_obsDerivative,
                   m_isCustomSamplingEnabled, m_customIntervals, msgBoxes,
                   highPrecision, queue, worker, lingering,
                   runs, runInputs, uiEvaluatedInRun,
                   finishedCalls, emitted, lastSnapshot, acceptedMap,
                   evaluated, modelCalled>>
    /\ UNCHANGED <<m_currentModelType, m_paramChart>>

onFitFinished ==
    /\ m_isFitting' = FALSE
    /\ msgBoxes' = msgBoxes + 1
    /\ finishedCalls' = finishedCalls + 1
    /\ UNCHANGED <<m_modelManager, m_stopRequested, m_obsTime, m_obsDeltaP,
                   m_obsDerivative, m_isCustomSamplingEnabled, m_customIntervals,
                   highPrecision, worker, lingering,
                   runs, runInputs, uiEvaluatedInRun,
                   emitted, lastSnapshot, acceptedMap, evaluated, modelCalled,
                   sinceStop>>
    /\ UNCHANGED <<m_currentModelType, m_paramChart>>

\* QMetaObject::invokeMethod(this, "onFitFinished"), delivered
deliverInvokedFinished ==
    /\ Alive /\ queue # <<>> /\ Head(queue) = "invokeFinished"
    /\ queue' = Tail(queue)
    /\ onFitFinished

\* connect(&m_watcher, &QFutureWatcher<void>::finished, this, onFitFinished)
deliverWatcherFinished ==
    /\ Alive /\ queue # <<>> /\ Head(queue) = "watcherFinished"
    /\ queue' = Tail(queue)
    /\ onFitFinished

\* the user closes a "fit finished" box
closeMessageBox ==
    /\ Alive /\ msgBoxes > 0
    /\ msgBoxes' = msgBoxes - 1
    /\ UNCHANGED <<m_modelManager, m_isFitting, m_stopRequested,
                   m_obsTime, m_obsDeltaP, m_obsDerivative,
                   m_isCustomSamplingEnabled, m_customIntervals,
                   highPrecision, queue, worker, lingering, historyVars>>
    /\ UNCHANGED <<m_currentModelType, m_paramChart>>

(***************************************************************************)
(* The worker: runLevenbergMarquardtOptimization, one action per stretch   *)
(* of code between two accesses to state it shares with the interaction    *)
(* thread.  sigProgress only moves the progress bar and is left out.       *)
(***************************************************************************)
\* emit sigIterationUpdated(err, map, curve); its slot onIterationUpdate only
\* redraws the table and the plot, so the event is not kept in the queue
EmitSnapshot(kind, sse, n, map) ==
    /\ UNCHANGED queue
    /\ emitted' = Append(emitted, kind)
    /\ lastSnapshot' = [kind |-> kind, sse |-> sse, n |-> n, map |-> map]

\* QMetaObject::invokeMethod(this, "onFitFinished") from the worker thread
PostFinished ==
    /\ queue' = Append(queue, "invokeFinished")
    /\ emitted' = Append(emitted, "finished")

\* calculateResiduals reaches the forward model
CallsModel(t) == m_modelManager /\ t # <<>>

\* the sizes a residual vector of the current fit subset can have
ResidualSizes ==
    {Len(calculateResiduals(m_modelManager, worker.fitT, worker.fitP, worker.fitD,
                            worker.weight, c)) : c \in ModelCurves(Len(worker.fitT))}

\* if(rPlus.size() == nRes && rMinus.size() == nRes): is column j written
ColumnWritten(plusSize, minusSize, nRes) == plusSize = nRes /\ minusSize = nRes

\* g = J^T r and (H + lambda D) delta = -g: delta[i] is 0 when column i of J
\* is zero or every residual is zero, and is any step otherwise
DeltaChoices(columnOk, residuals) ==
    IF columnOk /\ \E k \in 1..Len(residuals) : residuals[k] # 0
    THEN -MaxDelta..MaxDelta
    ELSE {0}

\* past its last statement the function reads none of its locals again; the
\* parameter list is kept to tell which run is ending
Returning(params) == [IdleWorker EXCEPT !.pc = "return", !.params = params]

\* line 1044 and the fitIndices loop
workerBegin ==
    /\ worker.pc = "begin"
    /\ highPrecision' = IF m_modelManager THEN FALSE ELSE highPrecision
    /\ LET fitIndices == FitIndices(worker.params)
       IN  worker' = [worker EXCEPT !.fitIndices = fitIndices,
                         !.pc = IF Len(fitIndices) = 0 THEN "noFree" ELSE "sample"]
    /\ UNCHANGED <<uiVars, queue, lingering, historyVars>>

\* if(nParams == 0) { invokeMethod(onFitFinished); return; }
workerNoFree ==
    /\ worker.pc = "noFree"
    /\ PostFinished
    /\ worker' = Returning(worker.params)
    /\ runInputs' = NoInputs
    /\ UNCHANGED <<uiVars, highPrecision, lingering, runs, uiEvaluatedInRun,
                   finishedCalls, lastSnapshot,
                   acceptedMap, evaluated, modelCalled, sinceStop>>

\* getLogSampledData on the members, then the initial parameter map
workerSample ==
    /\ worker.pc = "sample"
    /\ LET fit == getLogSampledData(m_obsTime, m_obsDeltaP, m_obsDerivative,
                                    m_isCustomSamplingEnabled, m_customIntervals)
           map == InitialParamMap(worker.params)
       IN  /\ worker' = [worker EXCEPT !.fitT = fit.t, !.fitP = fit.p, !.fitD = fit.d,
                            !.lambdaExp = lambdaInitExp,
                            !.currentParamMap = map, !.pc = "initial"]
           /\ acceptedMap' = map
    /\ runInputs' = NoInputs
    /\ UNCHANGED <<uiVars, highPrecision, queue, lingering, runs, uiEvaluatedInRun,
                   finishedCalls,
                   emitted, lastSnapshot, evaluated, modelCalled, sinceStop>>

\* the initial residuals, SSE and snapshot
workerInitial ==
    /\ worker.pc = "initial"
    /\ \E curve \in ModelCurves(Len(worker.fitT)) :
          LET residuals == calculateResiduals(m_modelManager, worker.fitT, worker.fitP,
                                              worker.fitD, worker.weight, curve)
              sse == calculateSumSquaredError(residuals)
          IN  /\ worker' = [worker EXCEPT !.residuals = residuals, !.currentSSE = sse,
                               !.iter = 0, !.pc = "loopTop"]
              /\ EmitSnapshot("initial", sse, Len(residuals), worker.currentParamMap)
    /\ evaluated' = {[kind |-> "initial", map |-> worker.currentParamMap]}
    /\ modelCalled' = TRUE
    /\ UNCHANGED <<uiVars, highPrecision, lingering, runs, runInputs, uiEvaluatedInRun,
                   finishedCalls,
                   acceptedMap, sinceStop>>

\* m_modelManager->calculateTheoreticalCurve on a null pointer: the process
\* may die there, or the call may come back (the other actions)
workerNullManager ==
    /\ worker.pc \in {"initial", "final"}
    /\ ~m_modelManager
    /\ worker' = [worker EXCEPT !.pc = "crashed"]
    /\ UNCHANGED <<uiVars, highPrecision, queue, lingering, historyVars>>

\* the head of the for loop and its two breaks
workerLoopTop ==
    /\ worker.pc = "loopTop"
    /\ IF \/ worker.iter >= maxIter
          \/ StopObserved(m_stopRequested)
          \/ Converged(worker.residuals, worker.currentSSE)
       THEN /\ worker' = [worker EXCEPT !.pc = "final"]
            /\ UNCHANGED sinceStop
       ELSE /\ worker' = [worker EXCEPT !.pc = "jacobian"]
            /\ sinceStop' = IF m_stopRequested
                            THEN [sinceStop EXCEPT !.iters = @ + 1] ELSE sinceStop
    /\ evaluated' = {}
    /\ UNCHANGED <<uiVars, highPrecision, queue, lingering, runs, runInputs, uiEvaluatedInRun,
                   finishedCalls,
                   emitted, lastSnapshot, acceptedMap, modelCalled>>

\* the maps computeJacobian hands to calculateResiduals
JacobianMaps(map, params, fitIndices) ==
    UNION { { [kind |-> "plus", map |-> PlusMap(map, params[fitIndices[j]].name)],
              [kind |-> "minus", map |-> MinusMap(map, params[fitIndices[j]].name)] } :
            j \in 1..Len(fitIndices) }

\* computeJacobian, then H and g
workerJacobian ==
    /\ worker.pc = "jacobian"
    /\ LET nRes == Len(worker.residuals)
           nParams == Len(worker.fitIndices)
       IN  \E sizes \in [1..nParams -> ResidualSizes \X ResidualSizes] :
              worker' = [worker EXCEPT
                            !.nRes = nRes,
                            !.jacobianOk = [j \in 1..nParams |->
                                ColumnWritten(sizes[j][1], sizes[j][2], nRes)],
                            !.tryIter = 0, !.stepAccepted = FALSE, !.pc = "trial"]
    /\ evaluated' = JacobianMaps(worker.currentParamMap, worker.params, worker.fitIndices)
    /\ modelCalled' = (modelCalled \/ CallsModel(worker.fitT))
    /\ sinceStop' = IF m_stopRequested THEN [sinceStop EXCEPT !.jac = @ + 1] ELSE sinceStop
    /\ UNCHANGED <<uiVars, highPrecision, queue, lingering, runs, runInputs, uiEvaluatedInRun,
                   finishedCalls,
                   emitted, lastSnapshot, acceptedMap>>

\* variant: the trial map is written through whatever the attempt's outcome
KeepTrialMap(accepted, current, trial) == trial

\* what an attempt leaves in currentParamMap
NextParamMap(accepted, current, trial) == IF accepted THEN trial ELSE current

\* variant: the damping loop goes on after an accepted step
TrialExitNoBreak(accepted, tryIter) ==
    IF tryIter + 1 >= maxTry THEN "endIter" ELSE "trial"

\* for(tryIter < 5) and the break after an accepted step: where control goes
\* after the attempt numbered tryIter
TrialExit(accepted, tryIter) ==
    IF accepted \/ tryIter + 1 >= maxTry THEN "endIter" ELSE "trial"

\* variant: the damping factor grows after every attempt
NextLambdaGrowing(accepted, lambdaExp) == lambdaExp + 1

\* lambda /= 10.0 after an accepted attempt, lambda *= 10.0 after a rejected one
NextLambda(accepted, lambdaExp) == IF accepted THEN lambdaExp - 1 ELSE lambdaExp + 1

\* one pass of the damping loop
workerTrial ==
    /\ worker.pc = "trial"
    /\ LET nParams == Len(worker.fitIndices)
       IN  \E delta \in [1..nParams -> -MaxDelta..MaxDelta],
              curve \in ModelCurves(Len(worker.fitT)) :
              /\ \A j \in 1..nParams :
                    delta[j] \in DeltaChoices(worker.jacobianOk[j], worker.residuals)
              /\ LET trialMap == TrialMap(worker.currentParamMap, worker.params,
                                          worker.fitIndices, delta)
                     newRes == calculateResiduals(m_modelManager, worker.fitT, worker.fitP,
                                                  worker.fitD, worker.weight, curve)
                     newSSE == calculateSumSquaredError(newRes)
                     accepted == StepAccepted(newSSE, worker.currentSSE)
                     map == NextParamMap(accepted, worker.currentParamMap, trialMap)
                 IN  /\ evaluated' = {[kind |-> "trial", map |-> trialMap]}
                     /\ IF accepted
                        THEN /\ worker' = [worker EXCEPT
                                    !.currentSSE = newSSE, !.currentParamMap = map,
                                    !.residuals = newRes,
                                    !.lambdaExp = NextLambda(TRUE, @),
                                    !.stepAccepted = TRUE,
                                    !.pc = TrialExit(TRUE, worker.tryIter)]
                             /\ acceptedMap' = trialMap
                             /\ EmitSnapshot("accepted", newSSE, worker.nRes, map)
                             /\ modelCalled' = TRUE
                        ELSE /\ worker' = [worker EXCEPT
                                    !.currentParamMap = map,
                                    !.lambdaExp = NextLambda(FALSE, @),
                                    !.tryIter = @ + 1,
                                    !.pc = TrialExit(FALSE, worker.tryIter)]
                             /\ modelCalled' = (modelCalled \/ CallsModel(worker.fitT))
                             /\ UNCHANGED <<queue, emitted, lastSnapshot, acceptedMap>>
    /\ sinceStop' = IF m_stopRequested THEN [sinceStop EXCEPT !.trials = @ + 1] ELSE sinceStop
    /\ UNCHANGED <<uiVars, highPrecision, lingering, runs, runInputs, uiEvaluatedInRun,
                   finishedCalls>>

\* if(!stepAccepted && lambda > 1e10) break;  else ++iter
workerEndIter ==
    /\ worker.pc = "endIter"
    /\ worker' = IF Stalled(worker.stepAccepted, worker.lambdaExp)
                 THEN [worker EXCEPT !.pc = "final"]
                 ELSE [worker EXCEPT !.iter = @ + 1, !.pc = "loopTop"]
    /\ evaluated' = {}
    /\ UNCHANGED <<uiVars, highPrecision, queue, lingering, runs, runInputs, uiEvaluatedInRun,
                   finishedCalls,
                   emitted, lastSnapshot, acceptedMap, modelCalled, sinceStop>>

\* lines 1178-1184: precision back on, derived parameter, final snapshot
workerFinal ==
    /\ worker.pc = "final"
    /\ highPrecision' = IF m_modelManager THEN TRUE ELSE highPrecision
    /\ LET map == updateDeps(worker.currentParamMap)
       IN  /\ worker' = [worker EXCEPT !.currentParamMap = map, !.pc = "finish"]
           /\ EmitSnapshot("final", worker.currentSSE, Len(worker.residuals), map)
    /\ evaluated' = {}
    /\ modelCalled' = TRUE
    /\ UNCHANGED <<uiVars, lingering, runs, runInputs, uiEvaluatedInRun,
                   finishedCalls, acceptedMap, sinceStop>>

\* line 1186
workerFinish ==
    /\ worker.pc = "finish"
    /\ PostFinished
    /\ worker' = Returning(worker.params)
    /\ UNCHANGED <<uiVars, highPrecision, lingering, runs, runInputs, uiEvaluatedInRun,
                   finishedCalls, lastSnapshot,
                   acceptedMap, evaluated, modelCalled, sinceStop>>

\* the task returns; the watcher of its future posts finished(); the record
\* of what the task did ends with it
workerReturn ==
    /\ worker.pc = "return"
    /\ worker' = IdleWorker
    /\ queue' = Append(queue, "watcherFinished")
    /\ emitted' = <<>>
    /\ lastSnapshot' = NoSnapshot
    /\ acceptedMap' = NoMap
    /\ evaluated' = {}
    /\ modelCalled' = FALSE
    /\ sinceStop' = NoWork
    /\ UNCHANGED <<uiVars, highPrecision, lingering, runs, runInputs, uiEvaluatedInRun,
                   finishedCalls>>

\* a task whose future the watcher no longer watches returns
lingeringReturn ==
    /\ Alive /\ lingering > 0
    /\ lingering' = lingering - 1
    /\ UNCHANGED <<uiVars, highPrecision, queue, worker, historyVars>>

Next ==
    \/ setModelManager
    \/ setObservedData
    \/ onOpenSamplingSettings
    \/ on_btnImportModel_clicked
    \/ on_btnRunFit_clicked
    \/ on_btnRunFit_rejected
    \/ on_btnStop_clicked
    \/ deliverInvokedFinished
    \/ deliverWatcherFinished
    \/ closeMessageBox
    \/ workerBegin
    \/ workerNoFree
    \/ workerSample
    \/ workerInitial
    \/ workerNullManager
    \/ workerLoopTop
    \/ workerJacobian
    \/ workerTrial
    \/ workerEndIter
    \/ workerFinal
    \/ workerFinish
    \/ workerReturn
    \/ lingeringReturn

Spec == Init /\ [][Next]_vars

(***************************************************************************)
(* getLogSampledData on its own: the series and the sampling settings are  *)
(* drawn at the start, the sampler is applied to the members, and then to  *)
(* its own output.                                                         *)
(***************************************************************************)
\* the strictly increasing time vectors of at most n points from lo on
RECURSIVE IncreasingTimes(_, _)
IncreasingTimes(lo, n) ==
    IF n = 0 THEN {<<>>}
    ELSE {<<>>} \cup UNION { { <<t>> \o rest : rest \in IncreasingTimes(t + 1, n - 1) } :
                             t \in lo..MaxTime }

\* a series over the times ts; the values tell the points apart
SeriesOver(ts) ==
    [t |-> ts,
     p |-> [k \in 1..Len(ts) |-> PosVal(ts[k])],
     d |-> [k \in 1..Len(ts) |-> PosVal(0 - ts[k])]]

SamplerSources == { SeriesOver(ts) : ts \in IncreasingTimes(1, MaxSrcLen) }

\* struct SamplingInterval { tStart, tEnd, count }
SamplingIntervals == [tStart : {1, 6}, tEnd : {0, 6, MaxTime}, count : 0..MaxCount]

\* default mode, custom mode with no interval, with one and with two
SamplerSettings ==
    {[enabled |-> FALSE, intervals |-> <<>>], [enabled |-> TRUE, intervals |-> <<>>]}
    \cup {[enabled |-> TRUE, intervals |-> <<a>>] : a \in SamplingIntervals}
    \cup {[enabled |-> TRUE, intervals |-> <<a, b>>] :
             a \in SamplingIntervals, b \in SamplingIntervals}

SamplerInit ==
    /\ m_modelManager = FALSE
    /\ highPrecision = TRUE
    /\ m_isFitting = FALSE
    /\ m_stopRequested = FALSE
    /\ \E src \in SamplerSources :
          m_obsTime = src.t /\ m_obsDeltaP = src.p /\ m_obsDerivative = src.d
    /\ \E cfg \in SamplerSettings :
          m_isCustomSamplingEnabled = cfg.enabled /\ m_customIntervals = cfg.intervals
    /\ m_currentModelType = 1
    /\ m_paramChart = <<>>
    /\ msgBoxes = 0
    /\ queue = <<>>
    /\ worker = [IdleWorker EXCEPT !.pc = "samplerIn"]
    /\ lingering = 0
    /\ runs = 0
    /\ finishedCalls = 0
    /\ emitted = <<>>
    /\ lastSnapshot = NoSnapshot
    /\ acceptedMap = NoMap
    /\ evaluated = {}
    /\ modelCalled = FALSE
    /\ sinceStop = NoWork
    /\ uiEvaluatedInRun = FALSE
    /\ runInputs = NoInputs

\* getLogSampledData(m_obsTime, m_obsDeltaP, m_obsDerivative, fitT, fitP, fitD)
samplerApply ==
    /\ worker.pc = "samplerIn"
    /\ LET fit == getLogSampledData(m_obsTime, m_obsDeltaP, m_obsDerivative,
                                    m_isCustomSamplingEnabled, m_customIntervals)
       IN  worker' = [worker EXCEPT !.fitT = fit.t, !.fitP = fit.p, !.fitD = fit.d,
                                    !.pc = "samplerOut"]
    /\ UNCHANGED <<uiVars, highPrecision, queue, lingering, historyVars>>

\* the output becomes the series and is sampled again with the same settings
samplerReapply ==
    /\ worker.pc = "samplerOut"
    /\ m_obsTime' = worker.fitT
    /\ m_obsDeltaP' = worker.fitP
    /\ m_obsDerivative' = worker.fitD
    /\ LET fit == getLogSampledData(worker.fitT, worker.fitP, worker.fitD,
                                    m_isCustomSamplingEnabled, m_customIntervals)
       IN  worker' = [worker EXCEPT !.fitT = fit.t, !.fitP = fit.p, !.fitD = fit.d,
                                    !.pc = "samplerAgain"]
    /\ UNCHANGED <<m_modelManager, m_isFitting, m_stopRequested,
                   m_isCustomSamplingEnabled, m_customIntervals, msgBoxes,
                   highPrecision, queue, lingering, historyVars>>
    /\ UNCHANGED <<m_currentModelType, m_paramChart>>

SamplerNext ==
    \/ samplerApply
    \/ samplerReapply

SamplerSpec == SamplerInit /\ [][SamplerNext]_vars

(***************************************************************************)
(* The parameter list: the handlers that write the list the chart holds.   *)
(* updateModelCurve only redraws (or reports a missing manager) and is     *)
(* left out; the table is taken to show what the list holds.               *)
(***************************************************************************)
\* ModelManager::ModelType values a persisted state may name
ModelTypes == {1, 2}

\* for(auto& p : updatedParams) if(p.name == "LfD") p.isFit = false;
ForceDerivedOff(list) ==
    [i \in 1..Len(list) |->
        IF list[i].name = "LfD" THEN [list[i] EXCEPT !.isFit = FALSE] ELSE list[i]]

\* ParamSelectDialog::getUpdatedParams: the list with the boxes the user ticked
getUpdatedParams(list, ticks) ==
    [i \in 1..Len(list) |-> [list[i] EXCEPT !.isFit = ticks[i]]]

\* one pass of the loop over the "parameters" array: the first entry of the
\* list with pObj's name takes its value, flag and bounds
RestoreParam(list, pObj) ==
    LET hits == {i \in 1..Len(list) : list[i].name = pObj.name}
    IN  IF hits = {} THEN list
        ELSE LET first == CHOOSE i \in hits : \A j \in hits : i <= j
             IN  [list EXCEPT ![first] = [@ EXCEPT !.value = pObj.value,
                                                   !.isFit = pObj.isFit,
                                                   !.min = pObj.min,
                                                   !.max = pObj.max]]

RECURSIVE RestoreParams(_, _)
RestoreParams(list, arr) ==
    IF arr = <<>> THEN list
    ELSE RestoreParams(RestoreParam(list, Head(arr)), Tail(arr))

\* objects of a persisted "parameters" array: names of both models and one
\* no model has
PersistedParams ==
    { FitParameter(name, 7, isFit, 2, 50) :
        name \in {"kf", "L", "LfD", "nf"}, isFit \in BOOLEAN }

\* the keys a persisted state holds: none, all, and each side of the tests
\* on "parameters" and "modelType"
RootKeys ==
    { {},
      {"modelType", "parameters", "observedData", "useCustomSampling", "customIntervals"},
      {"parameters"},
      {"modelType", "observedData", "useCustomSampling", "customIntervals"},
      {"modelType"} }

\* the persisted states handed to loadFittingState
PersistedStates ==
    { [keys |-> k, modelType |-> type, parameters |-> arr, observedData |-> obs,
       useCustomSampling |-> cfg.enabled, customIntervals |-> cfg.intervals] :
        k \in RootKeys, type \in ModelTypes,
        arr \in {<<>>} \cup {<<a>> : a \in PersistedParams}
                \cup {<<a, b>> : a \in PersistedParams, b \in PersistedParams},
        obs \in ObsChoices, cfg \in SamplingChoices }

\* no task is started in this specification, so the updateModelCurve at the
\* end of the three slots leaves uiEvaluatedInRun as it is
on_btnResetParams_clicked ==
    /\ Alive /\ msgBoxes = 0
    /\ m_modelManager
    /\ m_paramChart' = resetParams(m_currentModelType)
    /\ UNCHANGED <<m_modelManager, m_isFitting, m_stopRequested,
                   m_obsTime, m_obsDeltaP, m_obsDerivative,
                   m_isCustomSamplingEnabled, m_customIntervals,
                   m_currentModelType, msgBoxes,
                   highPrecision, queue, worker, lingering, historyVars>>

\* the dialog is accepted
on_btnSelectParams_clicked ==
    /\ Alive /\ msgBoxes = 0
    /\ \E ticks \in [1..Len(m_paramChart) -> BOOLEAN] :
          m_paramChart' = ForceDerivedOff(getUpdatedParams(m_paramChart, ticks))
    /\ UNCHANGED <<m_modelManager, m_isFitting, m_stopRequested,
                   m_obsTime, m_obsDeltaP, m_obsDerivative,
                   m_isCustomSamplingEnabled, m_customIntervals,
                   m_currentModelType, msgBoxes,
                   highPrecision, queue, worker, lingering, historyVars>>

loadFittingState ==
    /\ Alive /\ msgBoxes = 0
    /\ \E root \in PersistedStates :
          IF root.keys = {}
          THEN UNCHANGED <<m_currentModelType, m_paramChart, m_obsTime, m_obsDeltaP,
                           m_obsDerivative, m_isCustomSamplingEnabled, m_customIntervals>>
          ELSE LET type == IF "modelType" \in root.keys THEN root.modelType
                           ELSE m_currentModelType
                   defaults == resetParams(type)
               IN  /\ m_currentModelType' = type
                   /\ m_paramChart' = IF "parameters" \in root.keys
                                      THEN RestoreParams(defaults, root.parameters)
                                      ELSE defaults
                   /\ IF "observedData" \in root.keys
                      THEN /\ m_obsTime' = root.observedData.t
                           /\ m_obsDeltaP' = root.observedData.p
                           /\ m_obsDerivative' = root.observedData.d
                      ELSE UNCHANGED <<m_obsTime, m_obsDeltaP, m_obsDerivative>>
                   /\ m_isCustomSamplingEnabled' =
                         IF "useCustomSampling" \in root.keys THEN root.useCustomSampling
                         ELSE m_isCustomSamplingEnabled
                   /\ m_customIntervals' =
                         IF "customIntervals" \in root.keys THEN root.customIntervals
                         ELSE m_customIntervals
    /\ UNCHANGED <<m_modelManager, m_isFitting, m_stopRequested, msgBoxes,
                   highPrecision, queue, worker, lingering, historyVars>>

ParamNext ==
    \/ setModelManager
    \/ on_btnResetParams_clicked
    \/ on_btnSelectParams_clicked
    \/ loadFittingState

ParamSpec == Init /\ [][ParamNext]_vars

(***************************************************************************)
(* calculateResiduals on its own: the vectors it is given and the curve    *)
(* the forward model returns are drawn, of any lengths.                    *)
(***************************************************************************)
\* sequences of at most n values of S
SeqsUpTo(S, n) == UNION {[1..k -> S] : k \in 0..n}

\* observed values: at the 1e-10 floor, and above it
ObsVals == {ZeroVal, PosVal(5)}

\* computed values: at the floor, and above it
CalVals == {ZeroVal, PosVal(20)}

ResidualInit ==
    /\ m_modelManager \in BOOLEAN
    /\ highPrecision = TRUE
    /\ m_isFitting = FALSE
    /\ m_stopRequested = FALSE
    /\ m_obsTime = <<>> /\ m_obsDeltaP = <<>> /\ m_obsDerivative = <<>>
    /\ m_isCustomSamplingEnabled = FALSE
    /\ m_customIntervals = <<>>
    /\ m_currentModelType = 1
    /\ m_paramChart = <<>>
    /\ msgBoxes = 0
    /\ queue = <<>>
    /\ \E n \in 0..MaxResLen, obsP \in SeqsUpTo(ObsVals, MaxResLen),
          obsD \in SeqsUpTo(ObsVals, MaxResLen), w \in WeightChoices :
          worker = [IdleWorker EXCEPT !.pc = "residualIn",
                                      !.fitT = [i \in 1..n |-> Pow(10, i)],
                                      !.fitP = obsP, !.fitD = obsD, !.weight = w]
    /\ lingering = 0
    /\ runs = 0
    /\ finishedCalls = 0
    /\ emitted = <<>>
    /\ lastSnapshot = NoSnapshot
    /\ acceptedMap = NoMap
    /\ evaluated = {}
    /\ modelCalled = FALSE
    /\ sinceStop = NoWork
    /\ uiEvaluatedInRun = FALSE
    /\ runInputs = NoInputs

\* if(!m_modelManager || t.isEmpty()) return QVector<double>();
residualGuard ==
    /\ worker.pc = "residualIn"
    /\ ~CallsModel(worker.fitT)
    /\ worker' = [worker EXCEPT
                     !.residuals = calculateResiduals(m_modelManager, worker.fitT,
                                       worker.fitP, worker.fitD, worker.weight, worker.res),
                     !.pc = "residualOut"]
    /\ UNCHANGED <<uiVars, highPrecision, queue, lingering, historyVars>>

\* res = m_modelManager->calculateTheoreticalCurve(modelType, params, t)
residualModel ==
    /\ worker.pc = "residualIn"
    /\ CallsModel(worker.fitT)
    /\ \E p \in SeqsUpTo(CalVals, MaxResLen), d \in SeqsUpTo(CalVals, MaxResLen) :
          worker' = [worker EXCEPT !.res = [p |-> p, d |-> d], !.pc = "residualCalled"]
    /\ modelCalled' = TRUE
    /\ UNCHANGED <<uiVars, highPrecision, queue, lingering, runs, runInputs, uiEvaluatedInRun,
                   finishedCalls,
                   emitted, lastSnapshot, acceptedMap, evaluated, sinceStop>>

\* the two loops over the curve
residualFill ==
    /\ worker.pc = "residualCalled"
    /\ worker' = [worker EXCEPT
                     !.residuals = calculateResiduals(m_modelManager, worker.fitT,
                                       worker.fitP, worker.fitD, worker.weight, worker.res),
                     !.pc = "residualOut"]
    /\ UNCHANGED <<uiVars, highPrecision, queue, lingering, historyVars>>

ResidualNext == residualGuard \/ residualModel \/ residualFill

ResidualSpec == ResidualInit /\ [][ResidualNext]_vars

(***************************************************************************)
(* computeJacobian on its own: two free parameters, one perturbed on the   *)
(* log scale and one linearly; the residual vectors of the perturbed maps  *)
(* are drawn, of any lengths.                                              *)
(***************************************************************************)
\* 1 / (2.0 * h) for h = 0.01 and h = 1e-4
InvTwoH(isLog) == IF isLog THEN 50 ELSE 5000

\* variant: a column is written as far as both vectors reach
JacobianColumnPartial(rPlus, rMinus, nRes, isLog) ==
    [i \in 1..nRes |->
        IF i <= Len(rPlus) /\ i <= Len(rMinus)
        THEN (rPlus[i] - rMinus[i]) * InvTwoH(isLog) ELSE 0]

\* column j of J: zero as constructed, written when both sizes are nRes
JacobianColumn(rPlus, rMinus, nRes, isLog) ==
    IF ColumnWritten(Len(rPlus), Len(rMinus), nRes)
    THEN [i \in 1..nRes |-> (rPlus[i] - rMinus[i]) * InvTwoH(isLog)]
    ELSE [i \in 1..nRes |-> 0]

\* residual values: zero and one weighted log difference
ResidualVals == {0, 250}

\* a list with two free parameters
TwoFreeParams ==
    <<FitParameter("kf", 20, TRUE, 1, 100), FitParameter("km", 10, FALSE, 1, 100),
      FitParameter("S", 0, TRUE, 0, 10)>>

JacobianInit ==
    /\ m_modelManager = TRUE
    /\ highPrecision = FALSE
    /\ m_isFitting = TRUE
    /\ m_stopRequested = FALSE
    /\ m_obsTime = <<>> /\ m_obsDeltaP = <<>> /\ m_obsDerivative = <<>>
    /\ m_isCustomSamplingEnabled = FALSE
    /\ m_customIntervals = <<>>
    /\ m_currentModelType = 1
    /\ m_paramChart = TwoFreeParams
    /\ msgBoxes = 0
    /\ queue = <<>>
    /\ \E base \in SeqsUpTo(ResidualVals, MaxResLen), w \in WeightChoices :
          worker = [IdleWorker EXCEPT !.pc = "jacobianIn",
                                      !.params = TwoFreeParams, !.weight = w,
                                      !.fitIndices = FitIndices(TwoFreeParams),
                                      !.currentParamMap = InitialParamMap(TwoFreeParams),
                                      !.residuals = base,
                                      !.currentSSE = calculateSumSquaredError(base)]
    /\ lingering = 0
    /\ runs = 1
    /\ finishedCalls = 0
    /\ emitted = <<"initial">>
    /\ lastSnapshot = NoSnapshot
    /\ acceptedMap = NoMap
    /\ evaluated = {}
    /\ modelCalled = TRUE
    /\ sinceStop = NoWork
    /\ uiEvaluatedInRun = FALSE
    /\ runInputs = NoInputs

\* the loop over the free parameters
computeJacobian ==
    /\ worker.pc = "jacobianIn"
    /\ LET nRes == Len(worker.residuals)
           nParams == Len(worker.fitIndices)
           Vecs == SeqsUpTo(ResidualVals, MaxResLen)
       IN  \E rs \in [1..nParams -> Vecs \X Vecs] :
              worker' = [worker EXCEPT
                  !.J = [j \in 1..nParams |->
                           LET pName == worker.params[worker.fitIndices[j]].name
                               isLog == IsLog(worker.currentParamMap[pName], pName)
                           IN  [rPlus |-> rs[j][1], rMinus |-> rs[j][2],
                                col |-> JacobianColumn(rs[j][1], rs[j][2], nRes, isLog)]],
                  !.pc = "jacobianOut"]
    /\ evaluated' = JacobianMaps(worker.currentParamMap, worker.params, worker.fitIndices)
    /\ UNCHANGED <<uiVars, highPrecision, queue, lingering, runs, runInputs, uiEvaluatedInRun,
                   finishedCalls,
                   emitted, lastSnapshot, acceptedMap, modelCalled, sinceStop>>

\* lines 1097-1117: H and g from J, and on to the damping loop
jacobianReturn ==
    /\ worker.pc = "jacobianOut"
    /\ LET nRes == Len(worker.residuals)
       IN  worker' = [worker EXCEPT
               !.nRes = nRes,
               !.jacobianOk = [j \in 1..Len(worker.J) |->
                                  ColumnWritten(Len(worker.J[j].rPlus),
                                                Len(worker.J[j].rMinus), nRes)],
               !.tryIter = 0, !.stepAccepted = FALSE, !.pc = "trial"]
    /\ UNCHANGED <<uiVars, highPrecision, queue, lingering, historyVars>>

JacobianNext == computeJacobian \/ jacobianReturn

JacobianSpec == JacobianInit /\ [][JacobianNext]_vars

(***************************************************************************)
(* Properties                                                              *)
(***************************************************************************)
\* a task is between its start and its return
Running == worker.pc \notin {"idle", "crashed"}

\* tasks inside runLevenbergMarquardtOptimization
Executing == lingering + (IF Running THEN 1 ELSE 0)

\* m_isFitting is cleared only after the task posted its completion
FittingFlagCoversTask == ~m_isFitting => worker.pc \in {"idle", "return", "crashed"}

\* the list holds a parameter that is fit-flagged and is not LfD
HasFreeParam(params) ==
    \E i \in 1..Len(params) : params[i].isFit /\ params[i].name # "LfD"

\* kf > km and omega1 > omega2 where both keys are present
Ordered(map) ==
    /\ (Contains(map, "kf") /\ Contains(map, "km")) => map["kf"] > map["km"]
    /\ (Contains(map, "omega1") /\ Contains(map, "omega2")) => map["omega1"] > map["omega2"]

CountOf(e, kind) == Cardinality({i \in 1..Len(e) : e[i] = kind})

\* outer iterations the task has begun
IterationsBegun ==
    worker.iter + (IF worker.pc \in {"jacobian", "trial", "endIter"} THEN 1 ELSE 0)

\* C1: for every run that was started, on every exit path, onFitFinished is
\* executed exactly once: never more than once, and once when the task has
\* returned and no event is left to deliver
C1_FinishedExactlyOnce ==
    /\ finishedCalls <= 1
    /\ (runs > 0 /\ worker.pc = "idle" /\ queue = <<>>) => finishedCalls = 1

\* C2: at most one task executes runLevenbergMarquardtOptimization at any
\* time, whatever the order of Run requests, task steps and deliveries
C2_AtMostOneWorker == Executing <= 1

\* C3: once the stop flag is set during a run the task begins no outer
\* iteration at the loop head, and after the request it builds at most one
\* Jacobian and evaluates at most 5 trials (the iteration in progress); so a
\* stop set before the second iteration begins leaves at most one iteration
C3_StopBoundsWork ==
    (m_stopRequested /\ Running) =>
        /\ sinceStop.iters = 0
        /\ sinceStop.jac <= 1
        /\ sinceStop.trials <= maxTry

\* C3 case: the stop arrived inside an iteration, which ran its Jacobian and
\* trials to the end, and the loop was left at the next head
C3_Witness ==
    /\ m_stopRequested /\ worker.pc = "final"
    /\ sinceStop.jac = 1 /\ sinceStop.trials = maxTry /\ worker.iter = 1

\* C4: in a run with a free parameter the task holds, and the final snapshot
\* carries, the map of the last accepted trial, or the repaired initial map
\* when no step was accepted; a rejected trial leaves it as it was
C4_FinalMapIsLastAccepted ==
    /\ worker.pc \in {"initial", "loopTop", "jacobian", "trial", "endIter", "final"}
          => worker.currentParamMap = acceptedMap
    /\ lastSnapshot.kind = "final" => lastSnapshot.map = acceptedMap

\* C4 case: a final snapshot after an accepted step that changed the map and
\* a later rejected trial
C4_Witness ==
    /\ lastSnapshot.kind = "final"
    /\ CountOf(emitted, "accepted") >= 1
    /\ acceptedMap # InitialParamMap(worker.params)
    /\ worker.lambdaExp >= lambdaInitExp

\* C5: within a run the SSE held never rises; it changes only when a step is
\* accepted, and a step is accepted only with an SSE strictly below it
C5_SSEMonotone ==
    [][(runs' = runs /\ worker.pc \in {"loopTop", "jacobian", "trial", "endIter",
                                       "final"}) =>
          /\ worker'.currentSSE <= worker.currentSSE
          /\ (worker'.currentSSE # worker.currentSSE
                \/ emitted' = Append(emitted, "accepted")) =>
                /\ worker'.currentSSE < worker.currentSSE
                /\ emitted' = Append(emitted, "accepted")
                /\ lastSnapshot'.sse = worker'.currentSSE]_vars

\* C5 case: two steps were accepted in one run
C5_Witness == CountOf(emitted, "accepted") >= 2 /\ worker.currentSSE > 0

\* C6: when a run has signalled completion, on every exit path, the forward
\* model's high-precision mode is on
C6_HighPrecisionAtCompletion ==
    (m_modelManager /\ emitted # <<>> /\ emitted[Len(emitted)] = "finished")
        => highPrecision

\* C7: with no parameter both fit-flagged and different from LfD the run
\* enters no iteration, calls the forward model never, emits no snapshot and
\* posts its completion
C7_NoFreeParamCompletes ==
    (Running /\ ~HasFreeParam(worker.params)) =>
        /\ worker.pc \in {"begin", "noFree", "return"}
        /\ worker.iter = 0
        /\ ~modelCalled
        /\ lastSnapshot = NoSnapshot
        /\ emitted = IF worker.pc = "return" THEN <<"finished">> ELSE <<>>

\* C7 case: LfD is the only fit-flagged parameter and the task has completed
C7_Witness ==
    /\ worker.pc = "return"
    /\ ~HasFreeParam(worker.params)
    /\ \E i \in 1..Len(worker.params) : worker.params[i].isFit
    /\ m_modelManager

\* C8: after the constraint repair kf > km and omega1 > omega2 hold strictly
\* for any values of the four, zero and negative km and omega2 included
C8_RepairedMapOrdered ==
    worker.pc = "initial" => Ordered(worker.currentParamMap)

\* km and omega2, where present, are positive: the maps the repair of C8
\* can put in order
Repairable(map) ==
    /\ Contains(map, "km") => map["km"] > 0
    /\ Contains(map, "omega2") => map["omega2"] > 0

\* C9: every map given to calculateResiduals during a run (initial, trial,
\* plus and minus of the Jacobian) satisfies kf > km and omega1 > omega2;
\* stated for a run with a forward model and for the maps with positive km
\* and omega2, which the repair orders
C9_EvaluatedMapsOrdered ==
    m_modelManager => \A e \in evaluated : Repairable(e.map) => Ordered(e.map)

\* C10: a run with a free parameter emits the initial snapshot first, then
\* accepted-step snapshots, at most one per outer iteration, then one final
\* snapshot, and only then the completion
C10_EmissionOrder ==
    HasFreeParam(worker.params) =>
        /\ \A i \in 1..Len(emitted) :
              /\ (i = 1) <=> (emitted[i] = "initial")
              /\ emitted[i] = "finished" =>
                    i = Len(emitted) /\ i > 1 /\ emitted[i - 1] = "final"
              /\ emitted[i] = "final" =>
                    \A j \in 1..(i - 1) : emitted[j] \in {"initial", "accepted"}
        /\ worker.pc # "return" => CountOf(emitted, "accepted") <= IterationsBegun
        /\ worker.pc \in {"loopTop", "jacobian", "trial", "endIter", "final"}
              => emitted[1] = "initial"
        /\ worker.pc = "return" =>
              /\ emitted[Len(emitted)] = "finished"
              /\ CountOf(emitted, "final") = 1

\* C10 case: a completed run with an accepted step
C10_Witness ==
    /\ worker.pc = "return"
    /\ Len(emitted) >= 4
    /\ CountOf(emitted, "accepted") >= 1

\* C11: every started run terminates: the task begins at most maxIter outer
\* iterations, makes at most 5 attempts in each, and does not end before it
\* has signalled completion
C11_RunTerminates ==
    /\ worker.iter <= maxIter
    /\ IterationsBegun <= maxIter
    /\ worker.tryIter <= maxTry
    /\ Alive

\* C12: with no forward-model manager set a Run request starts no task, so
\* the loop is never entered and the null manager never evaluates a curve
C12_NoRunWithoutManager == ~m_modelManager => ~Running /\ Alive

\* the sampler has been applied to the series held in the members
Sampled == worker.pc = "samplerOut"

\* consecutive times are ascending and at least 1e-9 apart
SpacedTimes(ts) == \A k \in 1..(Len(ts) - 1) : ts[k + 1] - ts[k] >= timeTol

\* the sum of the positive counts of an interval list
PositiveCounts(intervals) ==
    SumSeq([k \in 1..Len(intervals) |->
               IF intervals[k].count > 0 THEN intervals[k].count ELSE 0])

\* C13: in default mode a series of at most targetCount points is returned
\* unchanged, and a longer one yields at most targetCount points
C13_DefaultCardinality ==
    (Sampled /\ ~m_isCustomSamplingEnabled) =>
        /\ Len(m_obsTime) <= targetCount =>
              /\ worker.fitT = m_obsTime
              /\ worker.fitP = m_obsDeltaP
              /\ worker.fitD = m_obsDerivative
        /\ Len(worker.fitT) <= targetCount

\* C13 case: default mode reduced a series longer than targetCount
C13_Witness ==
    /\ Sampled /\ ~m_isCustomSamplingEnabled
    /\ Len(m_obsTime) > targetCount
    /\ Len(worker.fitT) \in 2..targetCount

\* C14: for a series with strictly increasing times and any settings the
\* output times are strictly ascending and consecutive ones differ by at
\* least 1e-9
C14_OutputSpaced == Sampled => SpacedTimes(worker.fitT)

\* C15: the sampler applied to its own output with the same settings returns
\* that output
C15_Idempotent ==
    worker.pc = "samplerAgain" =>
        /\ worker.fitT = m_obsTime
        /\ worker.fitP = m_obsDeltaP
        /\ worker.fitD = m_obsDerivative

\* C16: in custom mode with a non-empty list every output point is a point
\* of the series whose time lies in an interval of positive count, and the
\* output has at most as many points as the positive counts add up to
C16_CustomWithinIntervals ==
    (Sampled /\ m_isCustomSamplingEnabled /\ m_customIntervals # <<>>) =>
        /\ \A k \in 1..Len(worker.fitT) :
              /\ \E j \in 1..Len(m_obsTime) :
                    /\ m_obsTime[j] = worker.fitT[k]
                    /\ m_obsDeltaP[j] = worker.fitP[k]
                    /\ m_obsDerivative[j] = worker.fitD[k]
              /\ \E q \in 1..Len(m_customIntervals) :
                    /\ m_customIntervals[q].count > 0
                    /\ m_customIntervals[q].tStart <= worker.fitT[k]
                    /\ worker.fitT[k] <= m_customIntervals[q].tEnd
        /\ Len(worker.fitT) <= PositiveCounts(m_customIntervals)

\* C16 case: an interval with count 0 and one that ends before the series
\* does; some points of the series were taken, not all
C16_Witness ==
    /\ Sampled /\ m_isCustomSamplingEnabled
    /\ m_obsTime # <<>>
    /\ Len(m_customIntervals) = 2
    /\ m_customIntervals[1].count = 0
    /\ m_customIntervals[2].count > 1
    /\ m_customIntervals[2].tEnd < m_obsTime[Len(m_obsTime)]
    /\ Len(worker.fitT) \in 2..(Len(m_obsTime) - 1)

\* the LfD of a map is the quotient of that map's Lf and L
DerivedConsistent(map) ==
    (Contains(map, "L") /\ Contains(map, "Lf") /\ map["L"] > 0) =>
        /\ Contains(map, "LfD")
        /\ map["LfD"] = (map["Lf"] * Scale) \div map["L"]

\* C17: in every parameter map the optimizer evaluates or emits (initial,
\* plus and minus perturbed, trial, accepted, final), when L and Lf are
\* present and L > 1e-9, LfD equals Lf / L of that same map
C17_DerivedConsistent ==
    /\ \A e \in evaluated : DerivedConsistent(e.map)
    /\ lastSnapshot.kind # "none" => DerivedConsistent(lastSnapshot.map)
    /\ worker.pc \in {"initial", "loopTop", "jacobian", "trial", "endIter", "finish"} =>
           DerivedConsistent(worker.currentParamMap)

\* C17 case: a perturbed map of the Jacobian in which L has moved and LfD
\* with it, away from the LfD of the map it was copied from
C17_Witness ==
    \E e \in evaluated :
        /\ e.kind = "plus"
        /\ Contains(e.map, "L") /\ Contains(e.map, "Lf") /\ Contains(e.map, "LfD")
        /\ e.map["L"] # worker.currentParamMap["L"]
        /\ e.map["LfD"] # worker.currentParamMap["LfD"]

\* C18: in every state of the parameter list, also after the selection
\* dialog is accepted and after a persisted state is restored, the entry
\* named LfD has its fit flag false
C18_DerivedNeverFit ==
    \A i \in 1..Len(m_paramChart) :
        m_paramChart[i].name = "LfD" => ~m_paramChart[i].isFit

\* the task is at the head of the loop and takes its next step
AtLoopTop == worker.pc = "loopTop" /\ worker' # worker

\* the mean squared residual the iteration is entered with is below 3e-3
BelowLimit ==
    /\ worker.residuals # <<>>
    /\ worker.currentSSE < mseLimit * Len(worker.residuals)

\* C19 as stated: the convergence test is skipped in the first outer
\* iteration, which builds a Jacobian whatever the initial mean squared
\* residual is, and a later iteration entered below 3e-3 ends the run
\* before a Jacobian is built
C19_ConvergenceAfterFirst ==
    [][(AtLoopTop /\ ~m_stopRequested /\ worker.iter < maxIter) =>
          IF worker.iter = 0 THEN worker'.pc = "jacobian"
          ELSE BelowLimit => worker'.pc = "final"]_vars

\* C19 amended: the test is applied in every outer iteration, the first
\* included; an iteration entered below 3e-3 ends the run before a Jacobian
\* is built, and one entered without a stop request, within maxIter and not
\* below 3e-3 builds one
C19_ConvergenceEveryIteration ==
    [][AtLoopTop =>
          /\ BelowLimit => worker'.pc = "final"
          /\ (~BelowLimit /\ ~m_stopRequested /\ worker.iter < maxIter) =>
                worker'.pc = "jacobian"]_vars

\* C19 case: a run that was not stopped left the loop in its first
\* iteration, below the limit and without a Jacobian
C19_Witness ==
    /\ worker.pc = "final" /\ worker.iter = 0
    /\ ~m_stopRequested
    /\ BelowLimit
    /\ worker.jacobianOk = <<>>

\* the task takes a step from the place pc
StepsFrom(pc) == worker.pc = pc /\ worker' # worker

\* C20: the damping factor starts at 10^-2 and changes only in attempts of
\* the damping loop: a rejected attempt multiplies it by 10, an accepted
\* one divides it by 10; an outer iteration makes at most 5 attempts and none
\* after an accepted one, so that k rejections and an accept leave it
\* multiplied by 10^(k-1) and 5 rejections by 10^5
C20_DampingSchedule ==
    [][/\ (worker.pc = "sample" /\ worker'.pc = "initial") => worker'.lambdaExp = -2
       /\ (Running /\ worker'.pc \notin {"idle", "begin", "return", "crashed"}
              /\ worker'.lambdaExp # worker.lambdaExp) =>
             worker.pc \in {"sample", "trial"}
       /\ StepsFrom("jacobian") =>
             /\ worker'.tryIter = 0 /\ ~worker'.stepAccepted
             /\ worker'.lambdaExp = worker.lambdaExp
       /\ StepsFrom("trial") =>
             /\ worker.tryIter < 5 /\ ~worker.stepAccepted
             /\ IF worker'.stepAccepted
                THEN /\ worker'.currentSSE < worker.currentSSE
                     /\ worker'.lambdaExp = worker.lambdaExp - 1
                     /\ worker'.tryIter = worker.tryIter
                     /\ worker'.pc = "endIter"
                ELSE /\ worker'.currentSSE = worker.currentSSE
                     /\ worker'.lambdaExp = worker.lambdaExp + 1
                     /\ worker'.tryIter = worker.tryIter + 1
                     /\ worker'.pc = IF worker'.tryIter = 5 THEN "endIter" ELSE "trial"
       /\ StepsFrom("endIter") => worker'.lambdaExp = worker.lambdaExp]_vars

\* C20 case: an outer iteration ended by an accepted attempt after two or
\* more rejected ones
C20_Witness ==
    /\ worker.pc = "endIter"
    /\ worker.stepAccepted
    /\ worker.tryIter >= 2

\* the outer iteration the task is in made no accepted attempt and the
\* damping factor is above 1e10
Saturated == ~worker.stepAccepted /\ worker.lambdaExp > 10

\* C21: the run ends as stalled exactly when an outer iteration finishes
\* with no accepted attempt and the damping factor above 1e10; otherwise the
\* end of the iteration starts the next one; a stalled run goes on to the
\* final snapshot and the completion signal like any other
C21_StallExit ==
    [][/\ StepsFrom("endIter") =>
             IF Saturated
             THEN worker'.pc = "final" /\ worker'.iter = worker.iter
             ELSE worker'.pc = "loopTop" /\ worker'.iter = worker.iter + 1
       /\ (StepsFrom("final") /\ Saturated /\ worker'.pc # "crashed") =>
             /\ worker'.pc = "finish"
             /\ emitted' = Append(emitted, "final")
             /\ lastSnapshot'.kind = "final"
             /\ lastSnapshot'.sse = worker.currentSSE
       /\ (StepsFrom("finish") /\ Saturated) =>
             /\ queue' = Append(queue, "invokeFinished")
             /\ emitted' = Append(emitted, "finished")]_vars

\* C21 case: a stalled run has emitted its final snapshot and is about to
\* signal completion
C21_Witness ==
    /\ worker.pc = "finish"
    /\ Saturated
    /\ lastSnapshot.kind = "final"

\* C22: a rejected attempt leaves the current map, the residual vector and
\* the SSE as they were and changes, of the optimizer's state, only the
\* damping factor (and the attempt counter); the trial map is a copy that
\* becomes the current map only when the attempt is accepted
C22_RejectedAttemptFrame ==
    [][StepsFrom("trial") =>
          /\ \E e \in evaluated' : e.kind = "trial"
          /\ IF worker'.stepAccepted
             THEN \A e \in evaluated' : worker'.currentParamMap = e.map
             ELSE /\ worker'.currentParamMap = worker.currentParamMap
                  /\ worker'.residuals = worker.residuals
                  /\ worker'.currentSSE = worker.currentSSE
                  /\ worker'.lambdaExp # worker.lambdaExp
                  /\ worker' = [worker EXCEPT !.lambdaExp = worker'.lambdaExp,
                                              !.tryIter = worker'.tryIter,
                                              !.pc = worker'.pc]
                  /\ lastSnapshot' = lastSnapshot]_vars

\* C22 case: an attempt was rejected whose trial map differs from the
\* current map
C22_Witness ==
    /\ worker.pc \in {"trial", "endIter"}
    /\ ~worker.stepAccepted
    /\ worker.tryIter >= 1
    /\ \E e \in evaluated : e.kind = "trial" /\ e.map # worker.currentParamMap

\* C23: in every trial map given to calculateResiduals each free parameter
\* lies within its declared [min, max]; the repair after the clamp never
\* leaves a free kf or omega1 above its max
C23_TrialWithinBounds ==
    \A e \in evaluated :
        e.kind = "trial" =>
            \A k \in 1..Len(worker.fitIndices) :
                LET p == worker.params[worker.fitIndices[k]]
                IN  p.min <= e.map[p.name] /\ e.map[p.name] <= p.max

\* C24: for a non-empty time vector the residual vector has nP + nD entries,
\* nP = min(|obsP|, |pCal|), nD = min(|obsD|, |dpCal|, nP): first the
\* pressure residuals in index order, then the derivative residuals, and an
\* entry whose observed or computed value is at or below 1e-10 is 0; for an
\* empty time vector the result is empty and the forward model is not called
C24_ResidualLayout ==
    worker.pc = "residualOut" =>
        IF worker.fitT = <<>>
        THEN worker.residuals = <<>> /\ ~modelCalled
        ELSE m_modelManager =>
                LET r == worker.residuals
                    nP == Min2(Len(worker.fitP), Len(worker.res.p))
                    nD == Min2(Min2(Len(worker.fitD), Len(worker.res.d)), nP)
                IN  /\ Len(r) = nP + nD
                    /\ \A i \in 1..nP :
                          r[i] = IF worker.fitP[i].pos /\ worker.res.p[i].pos
                                 THEN (worker.fitP[i].ln - worker.res.p[i].ln) * worker.weight
                                 ELSE 0
                    /\ \A i \in 1..nD :
                          r[nP + i] =
                              IF worker.fitD[i].pos /\ worker.res.d[i].pos
                              THEN (worker.fitD[i].ln - worker.res.d[i].ln)
                                      * (100 - worker.weight)
                              ELSE 0

\* C24 case: the pressure count caps the derivative count, and the result
\* holds a zero entry and a non-zero one
C24_Witness ==
    /\ worker.pc = "residualOut"
    /\ m_modelManager /\ worker.fitT # <<>>
    /\ Len(worker.res.p) = 1
    /\ Len(worker.fitD) > 1 /\ Len(worker.res.d) > 1
    /\ Len(worker.residuals) = 2
    /\ worker.residuals[1] = 0 /\ worker.residuals[2] # 0

\* C25: when, for a free parameter, a perturbed residual vector has not the
\* length of the base residuals, that parameter's column of J is all zeros;
\* the other columns are the central differences; and the run goes on to
\* the damping loop
C25_MismatchedColumnZero ==
    [][/\ StepsFrom("jacobianIn") =>
             /\ worker'.pc = "jacobianOut"
             /\ Len(worker'.J) = Len(worker.fitIndices)
             /\ \A j \in 1..Len(worker'.J) :
                   LET c == worker'.J[j]
                       nRes == Len(worker.residuals)
                   IN  /\ Len(c.col) = nRes
                       /\ \A i \in 1..nRes :
                             c.col[i] =
                                IF Len(c.rPlus) # nRes \/ Len(c.rMinus) # nRes THEN 0
                                ELSE (c.rPlus[i] - c.rMinus[i])
                                        * (IF worker.params[worker.fitIndices[j]].name = "kf"
                                           THEN 50 ELSE 5000)
       /\ StepsFrom("jacobianOut") =>
             /\ worker'.pc = "trial"
             /\ worker'.tryIter = 0
             /\ worker'.residuals = worker.residuals
             /\ worker'.currentParamMap = worker.currentParamMap]_vars

\* C25 case: one column left at zero by a short vector next to a column
\* that was written, and the task in the damping loop
C25_Witness ==
    /\ worker.pc = "trial"
    /\ Len(worker.J) = 2
    /\ Len(worker.J[1].rPlus) < Len(worker.residuals)
    /\ Len(worker.J[1].rMinus) = Len(worker.residuals)
    /\ \E i \in 1..Len(worker.residuals) :
          /\ worker.J[1].rMinus[i] # 0
          /\ worker.J[1].col[i] = 0
          /\ worker.J[2].col[i] # 0

\* the parameters of the running task that are neither free nor LfD
FixedParams ==
    {worker.params[i] : i \in {k \in 1..Len(worker.params) :
                                  ~worker.params[k].isFit /\ worker.params[k].name # "LfD"}}

\* C26 as stated: every parameter that is neither free nor LfD has in every
\* snapshot of a run the value it had in the list when the run started
C26_FixedUnchanged ==
    lastSnapshot.kind # "none" =>
        \A p \in FixedParams : lastSnapshot.map[p.name] = p.value

\* the parameter the constraint repair compares a repaired one with
OuterOf(name) == IF name = "kf" THEN "km" ELSE "omega2"

\* C26 amended: a parameter that is neither free nor LfD, kf or omega1 has
\* its list value in every map and snapshot of the run; a kf (omega1) that
\* is not free changes only where the constraint repair finds it at or below
\* km (omega2) and then becomes 1.01 times that km (omega2)
C26_FixedUnchangedButRepair ==
    [][(worker'.pc \in {"initial", "loopTop", "jacobian", "trial", "endIter",
                        "final", "finish"}) =>
          LET now == worker'.currentParamMap
              before == IF worker.pc = "sample" THEN ParamMapOf(worker.params)
                        ELSE worker.currentParamMap
              fixed == {worker'.params[i] :
                          i \in {k \in 1..Len(worker'.params) :
                                    /\ ~worker'.params[k].isFit
                                    /\ worker'.params[k].name # "LfD"}}
          IN  /\ \A p \in fixed :
                    IF p.name \in {"kf", "omega1"}
                    THEN \/ now[p.name] = before[p.name]
                         \/ /\ Contains(now, OuterOf(p.name))
                            /\ before[p.name] <= now[OuterOf(p.name)]
                            /\ now[p.name] = (now[OuterOf(p.name)] * 101) \div 100
                    ELSE now[p.name] = p.value
              /\ lastSnapshot' # lastSnapshot => lastSnapshot'.map = now]_vars

\* C26 case: a final snapshot in which a kf or omega1 that is not free was
\* rewritten by the repair, next to parameters that kept their values
C26_Witness ==
    /\ lastSnapshot.kind = "final"
    /\ \E p \in FixedParams :
          p.name \in {"kf", "omega1"} /\ lastSnapshot.map[p.name] # p.value
    /\ \E p \in FixedParams :
          p.name \notin {"kf", "omega1"} /\ lastSnapshot.map[p.name] = p.value

\* no attempt of the run has been accepted so far
NoneAccepted == CountOf(emitted, "accepted") = 0

\* C27: a run in which no attempt is accepted and which neither a stop
\* request nor the convergence test ends makes 5 attempts in each outer
\* iteration, the damping factor being 10^3 after the first, 10^8 after the
\* second and 10^13 after the third, and ends as stalled at the end of the
\* third: 3 Jacobians and 15 attempts
C27_StallAfterThreeIterations ==
    (NoneAccepted /\ ~m_stopRequested) =>
        /\ worker.pc \in {"loopTop", "jacobian"} =>
              /\ worker.iter <= 2
              /\ worker.lambdaExp = -2 + 5 * worker.iter
        /\ worker.pc = "trial" =>
              /\ worker.iter <= 2 /\ worker.tryIter < 5
              /\ worker.lambdaExp = -2 + 5 * worker.iter + worker.tryIter
        /\ worker.pc = "endIter" =>
              /\ worker.iter <= 2 /\ worker.tryIter = 5
              /\ worker.lambdaExp = 3 + 5 * worker.iter
        /\ (worker.pc \in {"final", "finish"} /\ ~BelowLimit) =>
              /\ worker.iter = 2 /\ worker.tryIter = 5
              /\ worker.lambdaExp = 13
              /\ Saturated

\* C27 case: such a run has left the loop
C27_Witness ==
    /\ NoneAccepted /\ ~m_stopRequested /\ ~BelowLimit
    /\ worker.pc = "finish"
    /\ worker.residuals # <<>>
    /\ worker.lambdaExp = 13

\* C28: when the observed series is not empty, every snapshot the task emits
\* carries an SSE divided by a residual count of at least 1 (stated for the
\* widget with a model manager: without one the task's first evaluation
\* already goes through a null pointer)
C28_SnapshotDivisorPositive ==
    (m_modelManager /\ m_obsTime # <<>> /\ lastSnapshot.kind # "none") =>
        lastSnapshot.n >= 1

\* C29: no call of updateModelCurve from the interaction thread evaluates
\* the model while the task of a run is executing
C29_OnlyWorkerEvaluates == ~uiEvaluatedInRun

\* C30: the fit subset a task samples is the one getLogSampledData gives on
\* the observed series and the sampling settings that were in place when
\* its Run request was accepted
C30_SubsetOfRunRequest ==
    [][(worker.pc = "sample" /\ worker'.pc = "initial") =>
           /\ runInputs.taken
           /\ worker'.fitT = runInputs.fit.t
           /\ worker'.fitP = runInputs.fit.p
           /\ worker'.fitD = runInputs.fit.d]_vars

=============================================================================
